---- MODULE Spec2Model ----
(***************************************************************************)
(* function_handler of src/main.rs as a state machine.                     *)
(*                                                                         *)
(* One invocation fetches one object, wraps its body in                    *)
(*   BufReader -> ZstdDecoder -> BufReader -> lines()                      *)
(* and runs `while let Some(line) = lines.next_line().await?`, parsing     *)
(* every line with serde_json::from_str and counting the successes.        *)
(*                                                                         *)
(* What is modelled byte by byte: the outer BufReader's buffer (rbuf), the *)
(* String that Lines accumulates a line in (buf), the terminator search,   *)
(* the stripping of "\n" / "\r\n", the UTF-8 check of read_line, the JSON  *)
(* deserializer that from_str is instantiated with, the counter, the       *)
(* println! every 1000 records and the two ways out (Ok(resp) / Err).      *)
(*                                                                         *)
(* What is an input: the outcome of get_object, whether the output has a   *)
(* body, the decompressed bytes of the object, and the place (if any) at   *)
(* which the decompressed stream fails (corrupt or truncated framing, I/O  *)
(* failure).  How many decompressed bytes one read of the decoder returns  *)
(* is chosen afresh at every read (1 .. BufCap): that is what the network  *)
(* chunking and the zstd block structure decide in the program.            *)
(*                                                                         *)
(* Not modelled: the elapsed time in the message, the request id.          *)
(***************************************************************************)
EXTENDS Integers, Sequences, FiniteSets, TLC

VARIABLES
    object,          \* the invocation's input: what S3 holds under (bucket, key)
    pc,              \* where function_handler is
    pos,             \* decompressed bytes the decoder has handed out so far
    rbuf,            \* unread part of the BufReader's buffer (main.rs:62)
    buf,             \* Lines.buf: the line being accumulated
    line,            \* the `line` bound by `while let Some(line)`
    num_log_events,  \* main.rs:65
    printed,         \* what println! wrote (main.rs:72), in order
    delivered,       \* the part of `printed` the log collector kept
    err,             \* the Err function_handler returned, "none" if none
    resp,            \* the Response function_handler returned, NoResp if none
    lines_read,      \* history: how many Some(line) next_line has returned
    prev             \* the outcome of the previous invocation on this object

vars == <<object, pc, pos, rbuf, buf, line, num_log_events, printed,
          delivered, err, resp, lines_read, prev>>

\* ------------------------------------------------------------- bounds
\* Capacity of the BufReader's buffer (8 KiB in the program; lines are longer
\* than the buffer here too, so that refills fall inside lines).
BufCap == 2
\* Number of lines of an object of the small specification.
MaxLines == 2
\* The bulk specification's objects have up to this many thousand lines.
MaxThousands == 2

\* ---------------------------------------------------------- constants
\* main.rs:71  `num_log_events % 1000 == 0`
ProgressEvery == 1000

NoErrAt == -1
NoResp == [none |-> TRUE]
NoPrev == [none |-> TRUE]

LF == "\n"
CR == "\r"
\* A byte that can be part of no UTF-8 text.
BadByte == "0xFF"

Min(a, b) == IF a < b THEN a ELSE b

\* ------------------------------------------------------------ object
\* The decompressed content of an object is `reps` copies of `unit` followed
\* by `tail`; errAt = k means the decompressed stream yields its first k
\* bytes and then fails, NoErrAt that it ends cleanly.
ContentLen(o) == o.reps * Len(o.unit) + Len(o.tail)

ByteAt(o, i) ==
    IF i <= o.reps * Len(o.unit)
    THEN o.unit[((i - 1) % Len(o.unit)) + 1]
    ELSE o.tail[i - o.reps * Len(o.unit)]

Bytes(o, from, to) == [i \in 1..(to - from + 1) |-> ByteAt(o, from + i - 1)]

\* Where the data the stream can still deliver ends.
Limit(o) == IF o.errAt = NoErrAt THEN ContentLen(o) ELSE o.errAt

\* --------------------------------------------------------- next_line
\* memchr(b'\n', available): the index of the first terminator, 0 if none.
memchr(s) ==
    IF \E i \in 1..Len(s) : s[i] = LF
    THEN CHOOSE i \in 1..Len(s) : s[i] = LF /\ \A j \in 1..(i - 1) : s[j] # LF
    ELSE 0

\* read_until: bytes.extend_from_slice(available)
AppendBuf_replace(b, bytes) == bytes
AppendBuf(b, bytes) == b \o bytes

\* Lines::poll_next_line: Some(mem::take(buf)) leaves an empty String behind.
TakeBuf_keep(b) == b
TakeBuf(b) == <<>>

\* read_line: String::from_utf8 of the bytes read.
Utf8Ok(s) == \A i \in 1..Len(s) : s[i] # BadByte

\* Lines::poll_next_line: a trailing "\n" is popped, and then a "\r" before it.
StripTerminator(s) ==
    IF Len(s) > 0 /\ s[Len(s)] = LF
    THEN LET t == SubSeq(s, 1, Len(s) - 1)
         IN  IF Len(t) > 0 /\ t[Len(t)] = CR THEN SubSeq(t, 1, Len(t) - 1) ELSE t
    ELSE s

\* ---------------------------------------------------------- from_str
IsWs(b) == b \in {" ", LF, "\t", CR}

\* Deserializer::parse_whitespace: the first index >= i that holds no
\* whitespace, Len(s) + 1 if there is none.
RECURSIVE SkipWs(_, _)
SkipWs(s, i) ==
    IF i <= Len(s) /\ IsWs(s[i]) THEN SkipWs(s, i + 1) ELSE i

\* main.rs:69  `let _value = serde_json::from_str(&line)?;`
\* Nothing constrains the type parameter of from_str but the `?`, whose
\* early-return arm is of type `!`; the type variable is therefore a
\* diverging one and falls back to `()` (editions up to 2021; edition 2024
\* falls back to `!`, which is not Deserialize, and does not build).  So the
\* line is deserialized as the unit type: Deserializer::deserialize_unit
\* skips whitespace, accepts the identifier `null` and rejects every other
\* value as an invalid type, and Deserializer::end rejects anything but
\* whitespace after it.
from_str(s) ==
    LET i == SkipWs(s, 1)
    IN  /\ i + 3 <= Len(s)
        /\ SubSeq(s, i, i + 3) = <<"n", "u", "l", "l">>
        /\ SkipWs(s, i + 4) = Len(s) + 1

\* ------------------------------------------------- the handler's exits
\* main.rs:68  `lines.next_line().await?`: an Err of the stream is returned.
OnReadErr_swallow == [pc |-> "respond", err |-> "none"]
OnReadErr == [pc |-> "done", err |-> "stream"]

\* main.rs:51-53  `let Some(body) = output.body else { return Err(..) }`
OnNoBody_empty == [pc |-> "next_line", err |-> "none"]
OnNoBody == [pc |-> "done", err |-> "nobody"]

\* main.rs:69-70  `from_str(&line)?; num_log_events += 1;`
OnParse_lenient(ok, n) == [pc |-> "next_line", err |-> "none", n |-> n + 1]
OnParse_countfirst(ok, n) ==
    IF ok THEN [pc |-> "next_line", err |-> "none", n |-> n + 1]
          ELSE [pc |-> "done", err |-> "parse", n |-> n + 1]
OnParse_skip(ok, n) ==
    [pc |-> "next_line", err |-> "none", n |-> IF ok THEN n + 1 ELSE n]
OnParse(ok, n) ==
    IF ok THEN [pc |-> "next_line", err |-> "none", n |-> n + 1]
          ELSE [pc |-> "done", err |-> "parse", n |-> n]

\* main.rs:71
ProgressDue_off(n) == n % ProgressEvery = 1
ProgressDue(n) == n % ProgressEvery = 0

\* ------------------------------------------------------------- inputs
Chars(str) ==
    CASE str = "" -> <<>>
      [] str = "null" -> <<"n", "u", "l", "l">>
      [] str = "1" -> <<"1">>
      [] str = "x" -> <<"x">>
      [] str = "null_cr" -> <<"n", "u", "l", "l", CR>>
      [] str = "bad" -> <<BadByte>>

LineTexts == {Chars(t) : t \in {"", "null", "1", "x", "null_cr", "bad"}}

RECURSIVE LineSeqs(_)
LineSeqs(n) ==
    IF n = 0 THEN {<<>>}
    ELSE LineSeqs(n - 1) \cup
         {Append(ls, l) : ls \in {x \in LineSeqs(n - 1) : Len(x) = n - 1},
                          l \in LineTexts}

RECURSIVE Join(_)
Join(ls) == IF ls = <<>> THEN <<>> ELSE Head(ls) \o <<LF>> \o Join(Tail(ls))

\* Up to MaxLines terminated lines, then a tail with no terminator (or none).
SmallContents == {Join(ls) \o t : ls \in LineSeqs(MaxLines), t \in LineTexts}

Body(u, r, t, e) ==
    [fetch |-> "body", unit |-> u, reps |-> r, tail |-> t, errAt |-> e]

NoContent(f) ==
    [fetch |-> f, unit |-> <<>>, reps |-> 0, tail |-> <<>>, errAt |-> NoErrAt]

SmallObjects ==
    {NoContent("err"), NoContent("nobody")} \cup
    {Body(<<>>, 0, c[1], c[2]) :
        c \in UNION {{<<t, e>> : e \in {NoErrAt} \cup (0..Len(t))} :
                     t \in SmallContents}}

BulkCounts ==
    {ProgressEvery * k + d : k \in 1..MaxThousands, d \in {-1, 0, 1}}

BulkObjects ==
    {NoContent("err"), NoContent("nobody")} \cup
    {Body(Chars("null") \o <<LF>>, r, <<>>, NoErrAt) : r \in BulkCounts} \cup
    {Body(Chars("null") \o <<LF>>, r, Chars("null"), NoErrAt) : r \in BulkCounts} \cup
    {Body(Chars("null") \o <<LF>>, r, <<"x", LF>>, NoErrAt) : r \in BulkCounts} \cup
    {Body(Chars("null") \o <<LF>>, r, <<>>, 5 * r) : r \in BulkCounts}

\* --------------------------------------------------------------- Init
Start(o) ==
    /\ object = o
    /\ pc = "get_object"
    /\ pos = 0
    /\ rbuf = <<>>
    /\ buf = <<>>
    /\ line = <<>>
    /\ num_log_events = 0
    /\ printed = <<>>
    /\ delivered = <<>>
    /\ err = "none"
    /\ resp = NoResp
    /\ lines_read = 0

Init == \E o \in SmallObjects : Start(o) /\ prev = NoPrev

InitBulk == \E o \in BulkObjects : Start(o) /\ prev = NoPrev

\* ------------------------------------------------------------ actions
\* main.rs:43-49  client.get_object(..).await?
get_object ==
    /\ pc = "get_object"
    /\ IF object.fetch = "err"
       THEN pc' = "done" /\ err' = "fetch"
       ELSE pc' = "body" /\ err' = err
    /\ UNCHANGED <<object, pos, rbuf, buf, line, num_log_events, printed,
                   delivered, resp, lines_read, prev>>

\* main.rs:51-64  the body, or the error; the readers are built around it
body_check ==
    /\ pc = "body"
    /\ IF object.fetch = "nobody"
       THEN pc' = OnNoBody.pc /\ err' = OnNoBody.err
       ELSE pc' = "next_line" /\ err' = err
    /\ UNCHANGED <<object, pos, rbuf, buf, line, num_log_events, printed,
                   delivered, resp, lines_read, prev>>

\* next_line has a whole line in `full`: read_line checks it is UTF-8, and
\* Lines strips the terminator and hands the String out.
Emit(full) ==
    IF Utf8Ok(full)
    THEN /\ line' = StripTerminator(full)
         /\ buf' = TakeBuf(full)
         /\ lines_read' = lines_read + 1
         /\ pc' = "parse"
         /\ err' = err
    ELSE /\ pc' = OnReadErr.pc
         /\ err' = OnReadErr.err
         /\ buf' = <<>>
         /\ UNCHANGED <<line, lines_read>>

\* BufReader::poll_fill_buf with an empty buffer: one read of the decoder,
\* which returns between 1 and BufCap of the bytes that are left.
fill_buf ==
    /\ pc = "next_line"
    /\ rbuf = <<>>
    /\ pos < Limit(object)
    /\ \E k \in 1..Min(BufCap, Limit(object) - pos) :
          /\ rbuf' = Bytes(object, pos + 1, pos + k)
          /\ pos' = pos + k
    /\ UNCHANGED <<object, pc, buf, line, num_log_events, printed, delivered,
                   err, resp, lines_read, prev>>

\* read_until on a filled buffer: up to and including the terminator if there
\* is one (the line is complete), the whole buffer if not.
read_until ==
    /\ pc = "next_line"
    /\ rbuf # <<>>
    /\ LET i == memchr(rbuf)
       IN  IF i = 0
           THEN /\ buf' = AppendBuf(buf, rbuf)
                /\ rbuf' = <<>>
                /\ UNCHANGED <<pc, line, err, lines_read>>
           ELSE /\ rbuf' = SubSeq(rbuf, i + 1, Len(rbuf))
                /\ Emit(AppendBuf(buf, SubSeq(rbuf, 1, i)))
    /\ UNCHANGED <<object, pos, num_log_events, printed, delivered, resp, prev>>

\* The decoder reports the end of the stream: the pending bytes, if any, are
\* the last line; if there are none next_line returns None and the loop ends.
stream_eof ==
    /\ pc = "next_line"
    /\ rbuf = <<>>
    /\ pos = Limit(object)
    /\ object.errAt = NoErrAt
    /\ IF buf = <<>>
       THEN pc' = "respond" /\ UNCHANGED <<buf, line, err, lines_read>>
       ELSE Emit(buf)
    /\ UNCHANGED <<object, pos, rbuf, num_log_events, printed, delivered,
                   resp, prev>>

\* The decoder (or the body under it) fails: next_line returns the Err
stream_err ==
    /\ pc = "next_line"
    /\ rbuf = <<>>
    /\ pos = Limit(object)
    /\ object.errAt # NoErrAt
    /\ pc' = OnReadErr.pc
    /\ err' = OnReadErr.err
    /\ UNCHANGED <<object, pos, rbuf, buf, line, num_log_events, printed,
                   delivered, resp, lines_read, prev>>

\* main.rs:69-73  the body of the loop
parse_line ==
    /\ pc = "parse"
    /\ LET r == OnParse(from_str(line), num_log_events)
       IN  /\ pc' = r.pc
           /\ err' = r.err
           /\ num_log_events' = r.n
           /\ IF r.n # num_log_events /\ ProgressDue(r.n)
              THEN /\ printed' = Append(printed, r.n)
                   /\ delivered' \in {delivered, Append(delivered, r.n)}
              ELSE UNCHANGED <<printed, delivered>>
    /\ line' = <<>>
    /\ UNCHANGED <<object, pos, rbuf, buf, resp, lines_read, prev>>

\* main.rs:76-87  Ok(resp), the message carrying num_log_events
respond ==
    /\ pc = "respond"
    /\ resp' = [num_log_events |-> num_log_events]
    /\ pc' = "done"
    /\ UNCHANGED <<object, pos, rbuf, buf, line, num_log_events, printed,
                   delivered, err, lines_read, prev>>

\* main.rs:100  the runtime calls function_handler again, for the same
\* (bucket, key); nothing of the previous invocation is kept by the handler
\* (prev is the caller's record of what it got back).
invoke_again ==
    /\ pc = "done"
    /\ prev = NoPrev
    /\ prev' = [err |-> err # "none", resp |-> resp]
    /\ pc' = "get_object"
    /\ pos' = 0
    /\ rbuf' = <<>>
    /\ buf' = <<>>
    /\ line' = <<>>
    /\ num_log_events' = 0
    /\ printed' = <<>>
    /\ delivered' = <<>>
    /\ err' = "none"
    /\ resp' = NoResp
    /\ lines_read' = 0
    /\ UNCHANGED object

Next ==
    \/ get_object
    \/ body_check
    \/ fill_buf
    \/ read_until
    \/ stream_eof
    \/ stream_err
    \/ parse_line
    \/ respond
    \/ invoke_again

Spec == Init /\ [][Next]_vars

SpecBulk == InitBulk /\ [][Next]_vars

\* ======================================================================
\* What the claims speak of
\* ======================================================================
Content(o) == Bytes(o, 1, ContentLen(o))

\* The lines of a byte sequence, terminators kept: every "\n" ends a line,
\* and bytes after the last "\n" are a last line.
RECURSIVE RawLines(_)
RawLines(s) ==
    IF Len(s) = 0 THEN <<>>
    ELSE LET i == memchr(s)
         IN  IF i = 0 THEN <<s>>
             ELSE <<SubSeq(s, 1, i)>> \o RawLines(SubSeq(s, i + 1, Len(s)))

Terminated(l) == Len(l) > 0 /\ l[Len(l)] = LF

\* The lines the stream can deliver whole: all of them when it ends cleanly,
\* the terminated ones before the failure when it fails.
Avail(o) ==
    LET ls == RawLines(Bytes(o, 1, Limit(o)))
    IN  IF o.errAt = NoErrAt THEN ls ELSE SelectSeq(ls, Terminated)

\* A line the loop does not get past: read_line or from_str returns Err.
LineFails(raw) == ~Utf8Ok(raw) \/ ~from_str(StripTerminator(raw))

FirstFail(ls) ==
    IF \E i \in 1..Len(ls) : LineFails(ls[i])
    THEN CHOOSE i \in 1..Len(ls) :
            LineFails(ls[i]) /\ \A j \in 1..(i - 1) : ~LineFails(ls[j])
    ELSE 0

NoFail(s) == FirstFail(RawLines(s)) = 0

\* The outcome as a function of the object alone.
RefOk(o) ==
    /\ o.fetch = "body"
    /\ o.errAt = NoErrAt
    /\ o.reps = 0 \/ NoFail(o.unit)
    /\ NoFail(o.tail)

RefCount(o) == o.reps * Len(RawLines(o.unit)) + Len(RawLines(o.tail))

\* Well-formed JSON text (RFC 8259) over the bytes the objects are made of:
\* whitespace, one value, whitespace, the value being `null` or a number
\* written with the digit 1 (no other value can be spelt with these bytes).
IsJson(s) ==
    LET i == SkipWs(s, 1)
        rest == SubSeq(s, i, Len(s))
        IsDigit(b) == b = "1"
        n == IF \E k \in 1..Len(rest) : ~IsDigit(rest[k])
             THEN (CHOOSE k \in 1..Len(rest) :
                      ~IsDigit(rest[k]) /\ \A j \in 1..(k - 1) : IsDigit(rest[j])) - 1
             ELSE Len(rest)
    IN  \/ /\ Len(rest) >= 4
           /\ SubSeq(rest, 1, 4) = <<"n", "u", "l", "l">>
           /\ SkipWs(rest, 5) = Len(rest) + 1
        \/ /\ n >= 1
           /\ SkipWs(rest, n + 1) = Len(rest) + 1

AllJson(ls) == \A k \in 1..Len(ls) : IsJson(StripTerminator(ls[k]))

CleanBody == object.fetch = "body" /\ object.errAt = NoErrAt

Done == pc = "done"

\* ----------------------------------------------------------------------
\* C1: an object of N newline-terminated, well-formed JSON lines, fetched and
\* decompressed without error, ends in a Response whose num_log_events is N.
\* (The code deserializes each line as the unit type, so a well-formed line
\* other than `null` ends the run with an Err.)
C1_WellFormedLinesCounted ==
    (/\ Done
     /\ CleanBody
     /\ \A k \in 1..Len(RawLines(Content(object))) :
            Terminated(RawLines(Content(object))[k])
     /\ AllJson(RawLines(Content(object))))
    => /\ err = "none"
       /\ resp = [num_log_events |-> Len(RawLines(Content(object)))]

\* ----------------------------------------------------------------------
\* C2 as stated: a line that is not valid JSON is never fatal; the run reads
\* every line to the end of the stream and ends in a Response.
C2_ParseFailureNotFatal ==
    (/\ Done
     /\ CleanBody
     /\ Utf8Ok(Content(object))
     /\ ~AllJson(RawLines(Content(object))))
    => /\ resp # NoResp
       /\ err = "none"
       /\ lines_read = Len(RawLines(Content(object)))

\* C2 amended: the first line on which from_str fails is fatal. When the
\* first line the loop does not get past is a parse failure, the run ends
\* with that error and no Response, having read no line after it.
C2_FirstParseFailureIsFatal ==
    LET ls == Avail(object)
        f == FirstFail(ls)
    IN  (Done /\ object.fetch = "body" /\ f > 0 /\ Utf8Ok(ls[f]))
        => /\ err = "parse"
           /\ resp = NoResp
           /\ lines_read = f
           /\ pos <= Limit(object)

C2_Witness ==
    /\ Done
    /\ err = "parse"
    /\ lines_read = 1
    /\ Len(Avail(object)) = 3
    /\ ~IsJson(StripTerminator(Avail(object)[1]))

\* ----------------------------------------------------------------------
\* C3: a run ends in a Response or in an Err, never both, and there is
\* neither before it ends; when the fetch fails or the decompressed stream
\* fails at any point the run ends in an Err with no Response, whatever
\* had been counted.
C3_ResponseOrError ==
    /\ resp = NoResp \/ err = "none"
    /\ ~Done => resp = NoResp /\ err = "none"
    /\ Done => resp # NoResp \/ err # "none"
    /\ (Done /\ (object.fetch = "err" \/ object.errAt # NoErrAt))
       => err # "none" /\ resp = NoResp

C3_Witness ==
    /\ Done
    /\ err = "stream"
    /\ object.errAt # NoErrAt
    /\ num_log_events = 2
    /\ resp = NoResp

\* ----------------------------------------------------------------------
\* C4: with no body in the output the run ends in an Err before anything is
\* read; with a body of zero decompressed bytes it ends in a Response with
\* num_log_events = 0.
C4_NoBodyIsNotEmptyBody ==
    /\ (object.fetch = "nobody" /\ pc \notin {"get_object", "body"})
       => /\ Done
          /\ err = "nobody"
          /\ resp = NoResp
          /\ pos = 0
          /\ lines_read = 0
    /\ (Done /\ CleanBody /\ ContentLen(object) = 0)
       => /\ err = "none"
          /\ resp = [num_log_events |-> 0]

C4_Witness ==
    /\ Done
    /\ object.fetch = "nobody"
    /\ err = "nobody"
    /\ prev = [err |-> TRUE, resp |-> NoResp]

\* ----------------------------------------------------------------------
\* C5: well-formed lines of which the last has no terminator: the
\* unterminated tail is a line too, and the run ends in a Response counting
\* it (one line with no terminator: num_log_events = 1).
C5_UnterminatedTailCounted ==
    LET ls == RawLines(Content(object))
    IN  (/\ Done
         /\ CleanBody
         /\ Len(ls) >= 1
         /\ ~Terminated(ls[Len(ls)])
         /\ AllJson(ls))
        => /\ err = "none"
           /\ resp = [num_log_events |-> Len(SelectSeq(ls, Terminated)) + 1]

\* ----------------------------------------------------------------------
\* C6 as stated: an empty line is counted as a parse failure and the run
\* goes on, so that every line of the stream is accounted for.
C6_EmptyLineCountedRunGoesOn ==
    LET ls == RawLines(Content(object))
    IN  (/\ Done
         /\ CleanBody
         /\ Utf8Ok(Content(object))
         /\ \A k \in 1..Len(ls) : ls[k] = <<LF>> \/ from_str(StripTerminator(ls[k]))
         /\ \E k \in 1..Len(ls) : ls[k] = <<LF>>)
        => lines_read = Len(ls)

\* C6 amended: an empty line is handed to the parser as an empty line, never
\* skipped: a run never ends in a Response when the stream has an empty line,
\* and when the first line the loop does not get past is an empty one, the
\* run ends there with the parse error.
C6_EmptyLineAborts ==
    LET ls == Avail(object)
        f == FirstFail(ls)
    IN  /\ (pc = "parse" /\ f = lines_read /\ ls[f] \in {<<LF>>, <<CR, LF>>})
           => line = <<>>
        /\ (Done /\ object.fetch = "body" /\ f > 0 /\ ls[f] \in {<<LF>>, <<CR, LF>>})
           => /\ err = "parse"
              /\ resp = NoResp
              /\ lines_read = f
              /\ num_log_events = f - 1
        /\ resp # NoResp
           => \A k \in 1..Len(ls) : ls[k] \notin {<<LF>>, <<CR, LF>>}

C6_Witness ==
    /\ Done
    /\ err = "parse"
    /\ lines_read = 2
    /\ num_log_events = 1
    /\ Avail(object)[2] = <<LF>>
    /\ Len(Avail(object)) = 3

\* ----------------------------------------------------------------------
\* C7: whether a run ends in a Response or an Err, and the count of the
\* Response, are those the object's bytes decide, however the reads cut
\* them up; and a second run on the same object ends as the first did.
C7_OutcomeDependsOnContentOnly ==
    Done =>
       /\ (resp # NoResp) = RefOk(object)
       /\ (err # "none") = ~RefOk(object)
       /\ RefOk(object) => resp = [num_log_events |-> RefCount(object)]
       /\ prev # NoPrev => prev = [err |-> err # "none", resp |-> resp]

C7_Witness ==
    /\ Done
    /\ prev # NoPrev
    /\ resp = [num_log_events |-> 3]
    /\ ContentLen(object) > 2 * BufCap

\* ----------------------------------------------------------------------
\* C8: the splitter holds the unread part of one read buffer and the bytes
\* of the line being accumulated, nothing of the lines before it: buf is
\* empty again once a line has been handed out, has no terminator in it,
\* and is no longer than the longest line seen so far.
LongestLine(s) ==
    LET ls == RawLines(s)
    IN  IF Len(ls) = 0 THEN 0
        ELSE CHOOSE m \in {Len(ls[k]) : k \in 1..Len(ls)} :
                \A k \in 1..Len(ls) : Len(ls[k]) <= m

C8_BufferHoldsOneLine ==
    /\ Len(rbuf) <= BufCap
    /\ pc = "parse" => buf = <<>>
    /\ memchr(buf) = 0
    /\ Len(buf) <= LongestLine(Bytes(object, 1, pos - Len(rbuf)))
    /\ Len(buf) + Len(rbuf) <= LongestLine(Bytes(object, 1, pos)) + BufCap

C8_Witness ==
    /\ pc = "next_line"
    /\ lines_read = 2
    /\ Len(buf) = 1
    /\ LongestLine(Bytes(object, 1, pos)) = 5

C10_FirstParseFailureAborts ==
    LET ls == Avail(object)
    IN  /\ lines_read <= Len(ls)
        /\ \A k \in 1..(lines_read - 1) : ~LineFails(ls[k])
        /\ pc = "parse"
           => /\ line = StripTerminator(ls[lines_read])
              /\ num_log_events = lines_read - 1
        /\ (pc \in {"next_line", "respond"} \/ resp # NoResp \/ err = "stream")
           => num_log_events = lines_read
        /\ err = "parse"
           => /\ Done
              /\ resp = NoResp
              /\ lines_read = FirstFail(ls)
              /\ ~from_str(StripTerminator(ls[lines_read]))
              /\ num_log_events = lines_read - 1

C10_Witness ==
    /\ Done
    /\ err = "parse"
    /\ num_log_events = 1
    /\ lines_read = 2
    /\ Len(RawLines(Content(object))) = 3

====
